---- MODULE Spec2Model ----
(***************************************************************************)
(* Model of voiceagent/playht.py: the PlayHTTTS streaming text-to-speech   *)
(* adapter.  One adapter instance, one consumer of its __aiter__ sequence, *)
(* one cooperative event loop: the caller's operations run only while the  *)
(* generator is suspended (not yet started, awaiting the network, parked   *)
(* at a yield, or finished).                                               *)
(***************************************************************************)
EXTENDS Integers, Sequences, FiniteSets, TLC

VARIABLES
    input_buffer,      \* self._input_buffer: the pushed fragments
    is_input_done,     \* self._is_input_done
    pc,                \* position of the __aiter__ generator
    text,              \* local `text` of __aiter__ / `content` of the payload
    response,          \* outcome of the convert POST of the current synthesis
    transcription_id,  \* local `transcription_id` of synthesize_stream
    delivered,         \* byte chunks received so far from stream.aiter_bytes()
    failure,           \* where the current synthesis hit `except Exception`
    requests,          \* every HTTP call issued, in order
    units,             \* every SynthesizedAudio handed to the consumer, in order
    syn,               \* number of syntheses started by __aiter__
    finished,          \* number of syntheses whose generator has ended
    last,              \* the caller's last operation and how it ended
    pushes,            \* number of push_text calls so far
    spins,             \* iterations of the while loop that did nothing
    pushed,            \* every fragment passed to push_text, in order
    events,            \* self._events: event name -> list of callbacks
    registered,        \* every on(event)(callback) registration, in order
    emitted            \* the last emit: its event, the callbacks it invoked,
                       \* the errors it logged, whether it raised

vars == <<input_buffer, is_input_done, pc, text, response, transcription_id,
          delivered, failure, requests, units, syn, finished, last, pushes,
          spins, pushed, events, registered, emitted>>

emitter_vars == <<events, registered, emitted>>

----------------------------------------------------------------------------
(* Bounds of the model *)

MaxPush == 2

MaxChunks == 2

MaxSpin == 2

MaxSubs == 3

(* Inputs *)

EventNames == {"started", "ended"}

Callbacks == {"cb_first", "cb_second", "cb_raises"}

Fragments == {"Hello", "world"}

Statuses == {200, 201, 404}

Bodies == {"with_id", "no_id", "invalid_json"}

SessionIds == {"tx-1", "tx-2"}

UuidHexes == {"0123456789abcdef0123456789abcdef",
              "fedcba9876543210fedcba9876543210"}

HexDigits == {"0", "1", "2", "3", "4", "5", "6", "7", "8", "9",
              "a", "b", "c", "d", "e", "f"}

Bytes(n, b) == [i \in 1..n |-> b]

ChunkSet == {Bytes(320, 1), Bytes(4, 7), Bytes(3, 9)}

----------------------------------------------------------------------------
(* PlayHTTTS.__init__ *)

sample_rate == 44100

num_channels == 1

NoResponse == [kind |-> "none"]

NoOp ==
    [op |-> "none", exc |-> "none", buffer |-> <<>>, calls |-> <<>>,
     at |-> "init"]

\* EventEmitter.__init__: self._events = {}
NoEvents == [e \in {} |-> <<>>]

NoEmit == [event |-> "", invoked |-> <<>>, logged |-> <<>>, raised |-> FALSE]

Init ==
    /\ input_buffer = <<>>
    /\ is_input_done = FALSE
    /\ pc = "init"
    /\ text = ""
    /\ response = NoResponse
    /\ transcription_id = ""
    /\ delivered = <<>>
    /\ failure = "none"
    /\ requests = <<>>
    /\ units = <<>>
    /\ syn = 0
    /\ finished = 0
    /\ last = NoOp
    /\ pushes = 0
    /\ spins = 0
    /\ pushed = <<>>
    /\ events = NoEvents
    /\ registered = <<>>
    /\ emitted = NoEmit

----------------------------------------------------------------------------
(* Pure helpers *)

\* ' '.join(self._input_buffer)
RECURSIVE Join(_)
Join(buf) ==
    IF Len(buf) = 0 THEN ""
    ELSE IF Len(buf) = 1 THEN buf[1]
    ELSE buf[1] \o " " \o Join(Tail(buf))

\* AudioFrame(samples_per_channel=..., sample_rate=..., num_channels=..., data=...)
AudioFrame(spc, data) ==
    [samples_per_channel |-> spc, sample_rate |-> sample_rate,
     num_channels |-> num_channels, data |-> data]

\* f"error-{uuid.uuid4().hex[:8]}"
ErrorRequestId(hex) == "error-" \o SubSeq(hex, 1, 8)

\* the frame built in the three failure branches
SilenceFrame == AudioFrame(80, Bytes(160, 0))

\* SynthesizedAudio(frame=raw_frame, request_id=request_id) of a failure branch
SentinelUnit(hex) ==
    [frame |-> SilenceFrame, request_id |-> ErrorRequestId(hex), syn |-> syn]

SamplesPerChannelFourBytes(chunk) == Len(chunk) \div (4 * num_channels)

SamplesPerChannelOneByte(chunk) == Len(chunk) \div num_channels

\* samples_per_channel = len(chunk) // (2 * self.num_channels)
SamplesPerChannel(chunk) == Len(chunk) \div (2 * num_channels)

\* SynthesizedAudio(frame=raw_frame, request_id=transcription_id) of the stream loop
ChunkUnit(chunk, id, k) ==
    [frame |-> AudioFrame(SamplesPerChannel(chunk), chunk),
     request_id |-> id, syn |-> k]

YieldFirst(us, u) == <<u>> \o us

\* `yield SynthesizedAudio(...)` of the stream loop, passed on by
\* `yield chunk` of __aiter__: the unit is the next one the consumer gets
Yield(us, u) == Append(us, u)

\* the cooperative event loop: the caller runs only while the generator is
\* not executing
CallerMayRun == pc # "loop"

Ended(op, exc, calls) ==
    [op |-> op, exc |-> exc, buffer |-> input_buffer, calls |-> calls,
     at |-> pc]

----------------------------------------------------------------------------
(* The caller's operations *)

push_text(fragment) ==
    /\ CallerMayRun
    /\ pushes < MaxPush
    /\ input_buffer' = Append(input_buffer, fragment)
    /\ pushes' = pushes + 1
    /\ pushed' = Append(pushed, fragment)
    /\ last' = Ended("push_text", "none", <<>>)
    /\ UNCHANGED <<emitter_vars, is_input_done, pc, text, response, transcription_id,
                   delivered, failure, requests, units, syn, finished, spins>>

FlushDispatchesAlways(buf) == TRUE

\* `if self._input_buffer:` of flush
FlushDispatches(buf) == buf # <<>>

\* `await self.synthesize_stream(paragraph)`: synthesize_stream is an async
\* generator function, so the call only builds an async generator object
\* (its body does not run, no request is sent) and awaiting that object
\* raises TypeError; the assignment after it is never reached.
flush ==
    /\ CallerMayRun
    /\ IF FlushDispatches(input_buffer)
       THEN last' = Ended("flush", "TypeError", <<>>)
       ELSE last' = Ended("flush", "none", <<>>)
    /\ UNCHANGED <<emitter_vars, pushed, input_buffer, is_input_done, pc, text, response,
                   transcription_id, delivered, failure, requests, units,
                   syn, finished, pushes, spins>>

end_input_toggles ==
    /\ CallerMayRun
    /\ is_input_done' = ~is_input_done
    /\ last' = Ended("end_input", "none", <<>>)
    /\ UNCHANGED <<emitter_vars, pushed, input_buffer, pc, text, response,
                   transcription_id, delivered, failure, requests, units,
                   syn, finished, pushes, spins>>

end_input ==
    /\ CallerMayRun
    /\ is_input_done' = TRUE
    /\ last' = Ended("end_input", "none", <<>>)
    /\ UNCHANGED <<emitter_vars, pushed, input_buffer, pc, text, response, transcription_id,
                   delivered, failure, requests, units, syn, finished,
                   pushes, spins>>

aclose_clears ==
    /\ CallerMayRun
    /\ is_input_done' = TRUE
    /\ input_buffer' = <<>>
    /\ last' = Ended("aclose", "none", <<>>)
    /\ UNCHANGED <<emitter_vars, pushed, pc, text, response,
                   transcription_id, delivered, failure, requests, units,
                   syn, finished, pushes, spins>>

aclose ==
    /\ CallerMayRun
    /\ is_input_done' = TRUE
    /\ last' = Ended("aclose", "none", <<>>)
    /\ UNCHANGED <<emitter_vars, pushed, input_buffer, pc, text, response, transcription_id,
                   delivered, failure, requests, units, syn, finished,
                   pushes, spins>>

----------------------------------------------------------------------------
(* synthesize_stream, as driven by __aiter__ *)

voice == "Emma"

voice_engine == "Play3.0-mini-http"

\* the `payload` dict
Payload(content) ==
    [voice |-> voice, content |-> content, format |-> "mp3",
     voice_engine |-> voice_engine]

\* client.post(f"{self.api_url}/convert", json=payload, headers=self.headers)
PostRequest(content, k) ==
    [method |-> "POST", url |-> "convert", payload |-> Payload(content),
     syn |-> k]

\* client.stream("GET", f"{self.api_url}/stream/{transcription_id}", ...)
GetRequest(id, k) ==
    [method |-> "GET", url |-> "stream/" \o id, syn |-> k]

LoopContinuesForever(done, buf) == TRUE

\* `while not self._is_input_done or self._input_buffer:`
LoopContinues(done, buf) == ~done \/ buf # <<>>

RejectedServerErrorOnly(status) == status >= 500

\* `if response.status_code != 200:`
Rejected(status) == status # 200

LacksIdNever(body) == FALSE

\* `if "transcriptionId" not in response_data:`
LacksId(body) == body # "with_id"

ExceptUnitsTwice(hex) == <<SentinelUnit(hex), SentinelUnit(hex)>>

ExceptUnitsNothing(hex) == <<>>

\* what the `except Exception` handler yields
ExceptUnits(hex) == <<SentinelUnit(hex)>>

\* first __anext__ of the consumer: the generator starts and reaches the
\* while test
Start ==
    /\ pc = "init"
    /\ pc' = "loop"
    /\ UNCHANGED <<emitter_vars, pushed, input_buffer, is_input_done, text, response,
                   transcription_id, delivered, failure, requests, units,
                   syn, finished, last, pushes, spins>>

\* the while test fails: the generator returns
LoopExit ==
    /\ pc = "loop"
    /\ ~LoopContinues(is_input_done, input_buffer)
    /\ pc' = "done"
    /\ UNCHANGED <<emitter_vars, pushed, input_buffer, is_input_done, text, response,
                   transcription_id, delivered, failure, requests, units,
                   syn, finished, last, pushes, spins>>

\* the while test holds and the buffer is non-empty: join it and send the
\* convert POST; the generator now awaits the response
LoopSynthesize ==
    /\ pc = "loop"
    /\ LoopContinues(is_input_done, input_buffer)
    /\ input_buffer # <<>>
    /\ text' = Join(input_buffer)
    /\ syn' = syn + 1
    /\ requests' = Append(requests, PostRequest(text', syn'))
    /\ response' = NoResponse
    /\ transcription_id' = ""
    /\ delivered' = <<>>
    /\ failure' = "none"
    /\ pc' = "await_post"
    /\ UNCHANGED <<emitter_vars, pushed, input_buffer, is_input_done, units, finished, last,
                   pushes, spins>>

\* the while test holds and the buffer is empty: the body does nothing and
\* the loop tests again, with no await in between
LoopSpin ==
    /\ pc = "loop"
    /\ LoopContinues(is_input_done, input_buffer)
    /\ input_buffer = <<>>
    /\ spins' = IF spins < MaxSpin THEN spins + 1 ELSE spins
    /\ UNCHANGED <<emitter_vars, pushed, input_buffer, is_input_done, pc, text, response,
                   transcription_id, delivered, failure, requests, units,
                   syn, finished, last, pushes>>

\* the convert POST returns a response
PostResponse(status, body, id, hex) ==
    /\ pc = "await_post"
    /\ response' = [kind |-> "response", status |-> status, body |-> body,
                    id |-> IF body = "with_id" THEN id ELSE ""]
    /\ IF Rejected(status)
       THEN /\ units' = Append(units, SentinelUnit(hex))
            /\ pc' = "yield_sentinel"
            /\ UNCHANGED <<emitter_vars, pushed, transcription_id, requests, failure>>
       ELSE IF body = "invalid_json"
       THEN \* response.json() raises: handled by `except Exception`
            /\ units' = units \o ExceptUnits(hex)
            /\ failure' = "decode"
            /\ pc' = "yield_sentinel"
            /\ UNCHANGED <<emitter_vars, pushed, transcription_id, requests>>
       ELSE IF LacksId(body)
       THEN /\ units' = Append(units, SentinelUnit(hex))
            /\ pc' = "yield_sentinel"
            /\ UNCHANGED <<emitter_vars, pushed, transcription_id, requests, failure>>
       ELSE /\ transcription_id' = id
            /\ requests' = Append(requests, GetRequest(id, syn))
            /\ pc' = "await_stream"
            /\ UNCHANGED <<emitter_vars, pushed, units, failure>>
    /\ UNCHANGED <<emitter_vars, pushed, input_buffer, is_input_done, text, delivered, syn,
                   finished, last, pushes, spins>>

\* the convert POST raises (connection failure, timeout)
PostException(hex) ==
    /\ pc = "await_post"
    /\ response' = [kind |-> "exception"]
    /\ failure' = "post"
    /\ units' = units \o ExceptUnits(hex)
    /\ pc' = "yield_sentinel"
    /\ UNCHANGED <<emitter_vars, pushed, input_buffer, is_input_done, text, transcription_id,
                   delivered, requests, syn, finished, last, pushes, spins>>

\* stream.aiter_bytes() delivers a chunk: one unit is yielded for it
StreamChunk(chunk) ==
    /\ pc = "await_stream"
    /\ Len(delivered) < MaxChunks
    /\ delivered' = Append(delivered, chunk)
    /\ units' = Yield(units, ChunkUnit(chunk, transcription_id, syn))
    /\ pc' = "yield_chunk"
    /\ UNCHANGED <<emitter_vars, pushed, input_buffer, is_input_done, text, response,
                   transcription_id, failure, requests, syn, finished, last,
                   pushes, spins>>

ResumeStreamCancellable ==
    /\ pc = "yield_chunk"
    /\ IF is_input_done
       THEN /\ finished' = syn
            /\ input_buffer' = <<>>
            /\ pc' = "loop"
       ELSE /\ pc' = "await_stream"
            /\ UNCHANGED <<finished, input_buffer>>
    /\ UNCHANGED <<emitter_vars, pushed, is_input_done, text, response,
                   transcription_id, delivered, failure, requests, units,
                   syn, last, pushes, spins>>

\* the consumer asks for the next unit after a chunk unit: the generator
\* awaits the next chunk
ResumeStream ==
    /\ pc = "yield_chunk"
    /\ pc' = "await_stream"
    /\ UNCHANGED <<emitter_vars, pushed, input_buffer, is_input_done, text, response,
                   transcription_id, delivered, failure, requests, units,
                   syn, finished, last, pushes, spins>>

\* the remote stream closes: synthesize_stream ends, __aiter__ clears the
\* buffer and goes back to the while test
StreamClose ==
    /\ pc = "await_stream"
    /\ finished' = syn
    /\ input_buffer' = <<>>
    /\ pc' = "loop"
    /\ UNCHANGED <<emitter_vars, pushed, is_input_done, text, response, transcription_id,
                   delivered, failure, requests, units, syn, last, pushes,
                   spins>>

\* opening or reading the stream raises
StreamException(hex) ==
    /\ pc = "await_stream"
    /\ failure' = "stream"
    /\ units' = units \o ExceptUnits(hex)
    /\ pc' = "yield_sentinel"
    /\ UNCHANGED <<emitter_vars, pushed, input_buffer, is_input_done, text, response,
                   transcription_id, delivered, requests, syn, finished,
                   last, pushes, spins>>

\* the consumer asks for the next unit after a sentinel: synthesize_stream
\* ends, __aiter__ clears the buffer and goes back to the while test
ResumeSentinel ==
    /\ pc = "yield_sentinel"
    /\ finished' = syn
    /\ input_buffer' = <<>>
    /\ pc' = "loop"
    /\ UNCHANGED <<emitter_vars, pushed, is_input_done, text, response, transcription_id,
                   delivered, failure, requests, units, syn, last, pushes,
                   spins>>

----------------------------------------------------------------------------
Caller ==
    \/ \E f \in Fragments : push_text(f)
    \/ flush
    \/ end_input
    \/ aclose

Iterator ==
    \/ Start
    \/ LoopExit
    \/ LoopSynthesize
    \/ LoopSpin
    \/ ResumeStream
    \/ ResumeSentinel

Network ==
    \/ \E s \in Statuses, b \in Bodies, id \in SessionIds, h \in UuidHexes :
          PostResponse(s, b, id, h)
    \/ \E h \in UuidHexes : PostException(h)
    \/ \E c \in ChunkSet : StreamChunk(c)
    \/ StreamClose
    \/ \E h \in UuidHexes : StreamException(h)

Next == Caller \/ Iterator \/ Network

Spec == Init /\ [][Next]_vars

\* The event loop runs a ready task, and httpx ends every wait with data,
\* end of stream or an exception, so a generator that can step does step.
FairSpec == Spec /\ WF_vars(Iterator) /\ WF_vars(Network)

----------------------------------------------------------------------------
(* EventEmitter, the base class of PlayHTTTS *)

adapter_vars ==
    <<input_buffer, is_input_done, pc, text, response, transcription_id,
      delivered, failure, requests, units, syn, finished, last, pushes,
      spins, pushed>>

\* a callback whose call raises an Exception
Raises(callback) == callback = "cb_raises"

OnPrepends(evs, event_name, callback) ==
    [e \in DOMAIN evs \cup {event_name} |->
        IF e = event_name
        THEN <<callback>> \o (IF e \in DOMAIN evs THEN evs[e] ELSE <<>>)
        ELSE evs[e]]

\* the decorator returned by on(event_name), applied to callback
On(evs, event_name, callback) ==
    [e \in DOMAIN evs \cup {event_name} |->
        IF e = event_name
        THEN Append(IF e \in DOMAIN evs THEN evs[e] ELSE <<>>, callback)
        ELSE evs[e]]

RECURSIVE RunCallbacks(_)

RunCallbacksUnguarded(cbs) ==
    IF cbs = <<>>
    THEN [invoked |-> <<>>, logged |-> <<>>, raised |-> FALSE]
    ELSE IF Raises(Head(cbs))
    THEN [invoked |-> <<Head(cbs)>>, logged |-> <<>>, raised |-> TRUE]
    ELSE LET rest == RunCallbacks(Tail(cbs)) IN
         [invoked |-> <<Head(cbs)>> \o rest.invoked,
          logged |-> rest.logged, raised |-> rest.raised]

\* the `for callback in self._events[event_name]` loop of emit, with its
\* try / except Exception around each call
RunCallbacks(cbs) ==
    IF cbs = <<>>
    THEN [invoked |-> <<>>, logged |-> <<>>, raised |-> FALSE]
    ELSE LET rest == RunCallbacks(Tail(cbs)) IN
         [invoked |-> <<Head(cbs)>> \o rest.invoked,
          logged |-> IF Raises(Head(cbs))
                     THEN <<Head(cbs)>> \o rest.logged
                     ELSE rest.logged,
          raised |-> rest.raised]

on(event_name, callback) ==
    /\ CallerMayRun
    /\ Len(registered) < MaxSubs
    /\ events' = On(events, event_name, callback)
    /\ registered' = Append(registered, <<event_name, callback>>)
    /\ UNCHANGED <<adapter_vars, emitted>>

emit(event_name) ==
    /\ CallerMayRun
    /\ LET run == IF event_name \in DOMAIN events
                  THEN RunCallbacks(events[event_name])
                  ELSE RunCallbacks(<<>>)
       IN emitted' = [event |-> event_name, invoked |-> run.invoked,
                      logged |-> run.logged, raised |-> run.raised]
    /\ UNCHANGED <<adapter_vars, events, registered>>

EmitterNext ==
    \/ \E e \in EventNames, c \in Callbacks : on(e, c)
    \/ \E e \in EventNames : emit(e)

EmitterSpec == Init /\ [][EmitterNext]_vars

----------------------------------------------------------------------------
TypeOK ==
    /\ input_buffer \in Seq(Fragments)
    /\ is_input_done \in BOOLEAN
    /\ pc \in {"init", "loop", "await_post", "await_stream", "yield_chunk",
               "yield_sentinel", "done"}
    /\ syn \in 0..MaxPush
    /\ finished \in {syn, syn - 1}
    /\ pushes \in 0..MaxPush
    /\ spins \in 0..MaxSpin

----------------------------------------------------------------------------
(* Vocabulary of the properties *)

\* the units yielded by synthesis number k, in order
UnitsOf(k) == SelectSeq(units, LAMBDA u : u.syn = k)

\* the GETs issued by synthesis number k
GetsOf(k) == SelectSeq(requests, LAMBDA r : r.syn = k /\ r.method = "GET")

\* error-<8 hex chars>
IsErrorId(id) ==
    /\ Len(id) = 14
    /\ SubSeq(id, 1, 6) = "error-"
    /\ \A i \in 7..14 : SubSeq(id, i, i) \in HexDigits

\* 80 samples per channel, 160 zero bytes, 44100 Hz, mono, error-tagged
IsSentinel(u) ==
    /\ u.frame.samples_per_channel = 80
    /\ u.frame.sample_rate = 44100
    /\ u.frame.num_channels = 1
    /\ Len(u.frame.data) = 160
    /\ \A i \in 1..160 : u.frame.data[i] = 0
    /\ IsErrorId(u.request_id)

\* the generator of the current synthesis has yielded its last unit
SynthesisOver == pc = "yield_sentinel" \/ finished = syn

----------------------------------------------------------------------------
\* C1: a call to flush() on a non-empty buffer f1..fn issues exactly one
\* convert POST, whose content is f1..fn joined in push order with a single
\* space between consecutive fragments.
C1_FlushIssuesOnePost ==
    (last.op = "flush" /\ last.buffer # <<>>) =>
        /\ Len(last.calls) = 1
        /\ last.calls[1].method = "POST"
        /\ last.calls[1].url = "convert"
        /\ last.calls[1].payload.content = Join(last.buffer)

\* C2: no operation on the synthesis path ends with an exception raised to
\* the caller.  (The generator itself has no raising exit: every statement
\* of synthesize_stream that can fail sits inside its try block.)
C2_NoExceptionToCaller == last.exc = "none"

\* C3: every synthesis that has run to its end has yielded at least one
\* unit to the consumer.
C3_EverySynthesisYields ==
    \A k \in 1..finished : Len(UnitsOf(k)) >= 1

\* C4: once input-done is set the produced sequence eventually ends, and no
\* unit is yielded from a state where input-done is set and the buffer is
\* empty.
C4_TerminatesAfterEndInput ==
    /\ is_input_done ~> (pc = "done")
    /\ [][(is_input_done /\ input_buffer = <<>>) => units' = units]_vars

C4_Witness ==
    /\ pc = "done"
    /\ is_input_done
    /\ input_buffer = <<>>
    /\ Len(units) >= 2
    /\ last.op = "end_input"

\* C5: whenever the buffer is empty and input-done is unset, a step of the
\* sequence's loop suspends the generator (it does not go round the loop
\* again while holding the event loop).
C5_LoopSuspends ==
    [][(pc = "loop" /\ input_buffer = <<>> /\ ~is_input_done)
          => pc' # "loop"]_vars

\* C6: in every state reached by a flush() that started with a non-empty
\* buffer, the pending buffer holds no fragment.
C6_BufferEmptyAfterFlush ==
    (last.op = "flush" /\ last.buffer # <<>>) => input_buffer = <<>>

\* C7: flush() on an empty buffer returns normally, issues no network call,
\* yields no unit and leaves the buffer and the input-done flag unchanged.
C7_EmptyFlushIsNoOp ==
    [][(last' # last /\ last'.op = "flush" /\ input_buffer = <<>>) =>
          /\ last'.exc = "none"
          /\ last'.calls = <<>>
          /\ requests' = requests
          /\ units' = units
          /\ input_buffer' = input_buffer
          /\ is_input_done' = is_input_done]_vars

C7_Witness ==
    /\ last.op = "flush"
    /\ last.buffer = <<>>
    /\ last.exc = "none"
    /\ input_buffer = <<>>
    /\ requests # <<>>

\* C8: when the convert POST returns a non-2xx status, or a success body
\* without the session identifier, the synthesis yields exactly one unit,
\* the silence sentinel, then ends, and issues no GET.
C8_RejectionYieldsOneSentinel ==
    (/\ response.kind = "response"
     /\ \/ response.status \notin 200..299
        \/ response.body = "no_id") =>
        /\ Len(UnitsOf(syn)) = 1
        /\ IsSentinel(UnitsOf(syn)[1])
        /\ GetsOf(syn) = <<>>
        /\ SynthesisOver

C8_Witness ==
    /\ response.kind = "response"
    /\ response.status = 200
    /\ response.body = "no_id"
    /\ finished = syn
    /\ Len(UnitsOf(syn)) = 1

\* C9: when an exception occurs during the convert POST or while the stream
\* is opened or read, the synthesis yields exactly one silence sentinel, as
\* its last unit, and then ends.
C9_ExceptionYieldsLastSentinel ==
    (failure # "none") =>
        LET us == UnitsOf(syn) IN
        /\ Len(us) = Len(delivered) + 1
        /\ IsSentinel(us[Len(us)])
        /\ \A i \in 1..(Len(us) - 1) : ~IsSentinel(us[i])
        /\ SynthesisOver

C9_Witness ==
    /\ failure = "stream"
    /\ Len(delivered) >= 1
    /\ finished = syn
    /\ Len(UnitsOf(syn)) = Len(delivered) + 1

\* C10: on the success path, for chunks c1..cn delivered by the remote
\* stream, the synthesis yields exactly n units; unit i carries the bytes of
\* ci, samples_per_channel = len(ci) div 2, 44100 Hz, one channel, and the
\* session identifier returned by the convert POST.
C10_OneUnitPerChunk ==
    (response.kind = "response" /\ transcription_id # "" /\ failure = "none")
    =>
        LET us == UnitsOf(syn) IN
        /\ Len(us) = Len(delivered)
        /\ \A i \in 1..Len(delivered) :
              /\ us[i].frame.data = delivered[i]
              /\ us[i].frame.samples_per_channel = Len(delivered[i]) \div 2
              /\ us[i].frame.sample_rate = 44100
              /\ us[i].frame.num_channels = 1
              /\ us[i].request_id = response.id

C10_Witness ==
    /\ response.kind = "response"
    /\ transcription_id # ""
    /\ failure = "none"
    /\ finished = syn
    /\ Len(delivered) = 2
    /\ Len(delivered[1]) # Len(delivered[2])
    /\ Len(UnitsOf(syn)) = 2

----------------------------------------------------------------------------
\* the convert POSTs issued by synthesis number k
PostsOf(k) == SelectSeq(requests, LAMBDA r : r.syn = k /\ r.method = "POST")

\* the contents of the convert POSTs among reqs, in order
ContentsOf(reqs) ==
    LET posts == SelectSeq(reqs, LAMBDA r : r.method = "POST")
    IN [i \in 1..Len(posts) |-> posts[i].payload.content]

\* the callbacks registered for event e, in registration order
CallbacksFor(reg, e) ==
    LET sel == SelectSeq(reg, LAMBDA r : r[1] = e)
    IN [i \in 1..Len(sel) |-> sel[i][2]]

\* the generator is inside a synthesis
InFlight ==
    pc \in {"await_post", "await_stream", "yield_chunk", "yield_sentinel"}

\* a success stream that has delivered a 320-byte chunk, then a 4-byte chunk
C11_Case ==
    /\ response.kind = "response"
    /\ transcription_id # ""
    /\ failure = "none"
    /\ Len(delivered) = 2
    /\ Len(delivered[1]) = 320
    /\ Len(delivered[2]) = 4

\* C11 (as stated): chunks of 320 and 4 bytes yield two units with
\* samples_per_channel 80 and 2, both carrying the session id.
C11_Samples80And2 ==
    C11_Case =>
        LET us == UnitsOf(syn) IN
        /\ Len(us) = 2
        /\ us[1].frame.samples_per_channel = 80
        /\ us[2].frame.samples_per_channel = 2
        /\ us[1].request_id = response.id
        /\ us[2].request_id = response.id

\* C11 (amended): chunks of 320 and 4 bytes yield two units with
\* samples_per_channel 160 and 2, both carrying the session id.
C11_Samples160And2 ==
    C11_Case =>
        LET us == UnitsOf(syn) IN
        /\ Len(us) = 2
        /\ us[1].frame.samples_per_channel = 160
        /\ us[2].frame.samples_per_channel = 2
        /\ us[1].request_id = response.id
        /\ us[2].request_id = response.id

C11_Witness ==
    /\ C11_Case
    /\ finished = syn
    /\ Len(UnitsOf(syn)) = 2

C13_NoFragmentLost ==
    [][(pc # "done" /\ pc' = "done")
          => Join(ContentsOf(requests')) = Join(pushed')]_vars

\* C14: the input-done flag is false at construction, becomes true only in
\* a step of end_input or aclose, and never goes back to false.
C14_InputDoneMonotonic ==
    /\ ~is_input_done
    /\ [][/\ is_input_done => is_input_done'
          /\ (~is_input_done /\ is_input_done')
                => last'.op \in {"end_input", "aclose"}]_vars

C14_Witness ==
    /\ is_input_done
    /\ last.op = "push_text"
    /\ last.at = "yield_chunk"
    /\ pc = "done"

\* C15: each synthesis issues exactly one convert POST and at most one
\* stream GET, the GET right after its POST and only when the POST's
\* response carries the session identifier; nothing is re-issued.
C15_NoRetry ==
    /\ \A k \in 1..syn : Len(PostsOf(k)) = 1 /\ Len(GetsOf(k)) <= 1
    /\ \A i \in 1..Len(requests) :
          requests[i].method = "GET" =>
              /\ i > 1
              /\ requests[i - 1].method = "POST"
              /\ requests[i - 1].syn = requests[i].syn
    /\ GetsOf(syn) # <<>> =>
          /\ response.kind = "response"
          /\ response.id # ""
          /\ GetsOf(syn)[1].url = "stream/" \o response.id
    /\ Len(requests) <= 2 * syn

C15_Witness ==
    /\ failure = "stream"
    /\ finished = syn
    /\ syn = 1
    /\ Len(requests) = 2
    /\ Len(PostsOf(syn)) = 1
    /\ Len(GetsOf(syn)) = 1

\* C16: a call of close() sets input-done and changes nothing else: the
\* buffer, the generator, the requests issued and the units yielded are
\* as before, so a second call leaves the adapter as the first left it.
C16_CloseTouchesOnlyFlag ==
    [][(last' # last /\ last'.op = "aclose") =>
          /\ is_input_done'
          /\ input_buffer' = input_buffer
          /\ pc' = pc
          /\ requests' = requests
          /\ units' = units
          /\ events' = events]_vars

C16_Witness ==
    /\ last.op = "aclose"
    /\ last.at = "await_stream"
    /\ is_input_done
    /\ input_buffer # <<>>
    /\ pc = "await_stream"

\* C17: with input-done set while a synthesis is in flight, the generator
\* goes on reading the stream, yields a unit for every further chunk, and
\* does not end before that synthesis has ended.
C17_CloseDoesNotAbort ==
    [][(is_input_done /\ InFlight) =>
          /\ pc' # "done"
          /\ (pc = "yield_chunk" /\ pc' # pc) => pc' = "await_stream"
          /\ Len(delivered') > Len(delivered) =>
                /\ Len(units') = Len(units) + 1
                /\ units'[Len(units')].frame.data = delivered'[Len(delivered')]
                /\ units'[Len(units')].request_id = transcription_id
          /\ pc' = "loop" =>
                /\ pc \in {"await_stream", "yield_sentinel"}
                /\ finished' = syn]_vars

C17_Witness ==
    /\ pc = "done"
    /\ is_input_done
    /\ last.op = "aclose"
    /\ last.at = "await_post"
    /\ failure = "none"
    /\ Len(delivered) = 2
    /\ Len(UnitsOf(syn)) = 2

\* C18 (as stated): all units of one synthesis carry the same correlation
\* identifier, and an error-tagged unit is the only unit of its synthesis.
C18_OneIdPerSynthesis ==
    \A k \in 1..syn :
        LET us == UnitsOf(k) IN
        /\ \A i \in 1..Len(us) : us[i].request_id = us[1].request_id
        /\ \A i \in 1..Len(us) : IsErrorId(us[i].request_id) => Len(us) = 1

\* C18 (amended): in every synthesis all units but the last carry one and
\* the same identifier, which is not error-tagged (the session identifier
\* of the convert POST); only the last unit may be error-tagged, and it
\* follows session-tagged units only after a failure of the stream.
C18_OneSessionIdThenSentinel ==
    /\ \A k \in 1..syn :
          LET us == UnitsOf(k) IN
          \A i \in 1..(Len(us) - 1) :
              /\ ~IsErrorId(us[i].request_id)
              /\ us[i].request_id = us[1].request_id
    /\ LET us == UnitsOf(syn) IN
       /\ \A i \in 1..Len(us) :
             ~IsErrorId(us[i].request_id) => us[i].request_id = response.id
       /\ (Len(us) > 1 /\ IsErrorId(us[Len(us)].request_id))
             => failure = "stream"

C18_Witness ==
    /\ failure = "stream"
    /\ Len(delivered) = 2
    /\ Len(UnitsOf(syn)) = 3
    /\ pc = "yield_sentinel"

\* C19: a convert response with any 2xx status whose body contains the
\* session identifier takes the success path: the stream GET is issued and
\* the units of the synthesis carry that identifier.
C19_Any2xxSucceeds ==
    (/\ response.kind = "response"
     /\ response.status \in 200..299
     /\ response.body = "with_id") =>
        /\ Len(GetsOf(syn)) = 1
        /\ GetsOf(syn)[1].url = "stream/" \o response.id
        /\ \A i \in 1..Len(delivered) :
              UnitsOf(syn)[i].request_id = response.id

\* C20: emit(event) invokes the callbacks registered for the event with
\* on(event), each once and in registration order, whether or not some of
\* them raise, and does not raise itself; with no subscriber it invokes
\* nothing.
C20_EmitIsolatesSubscribers ==
    [][emitted' # emitted =>
          /\ emitted'.invoked = CallbacksFor(registered, emitted'.event)
          /\ ~emitted'.raised
          /\ emitted'.logged =
                SelectSeq(emitted'.invoked, LAMBDA c : c = "cb_raises")]_vars

C20_Witness ==
    /\ emitted.event = "started"
    /\ emitted.invoked = <<"cb_first", "cb_raises", "cb_second">>
    /\ emitted.logged = <<"cb_raises">>
    /\ ~emitted.raised

====
